---- MODULE Spec2Model ----
(***************************************************************************)
(* Model of src/src/catchAsync.ts: the handler wrapper (wrapHandler), the  *)
(* guarded continuation (wrappedNext) and the entry point (catchAsync).    *)
(*                                                                         *)
(* One callable is wrapped once (Spec: by wrapHandler; SpecEntry: by the   *)
(* entry point catchAsync, which may hand it back unwrapped); the result   *)
(* is then invoked up to MaxInv times by the host.  JavaScript is single   *)
(* threaded: the synchronous part of an invocation runs on a call stack    *)
(* (re-entrant invocations push onto it), everything asynchronous (the     *)
(* resumption of an awaited body, a promise callback, a timer callback)    *)
(* runs only when the stack is empty.                                      *)
(*                                                                         *)
(* SpecThis lets the callers invoke the wrapper on a receiver, SpecShort   *)
(* with fewer arguments than the declared arity, SpecAll adds bodies that  *)
(* combine several sub-operations into one promise.                        *)
(*                                                                         *)
(* SpecBundle models the entry point applied to any value and the walk of  *)
(* wrapControllerClass over a heap of prototype levels; SpecMw models      *)
(* src/src/errorMiddleware.ts, handleCommonErrors and ErrorHandler.        *)
(***************************************************************************)
EXTENDS Integers, Sequences, FiniteSets, TLC

\* ---------------------------------------------------------------- bounds
MaxInv == 2        \* invocations of the value returned by catchAsync
MaxCalls == 2      \* explicit continuation calls made by the bodies in a run
MaxLevels == 3     \* prototype levels in the heap, besides Object.prototype
MaxEntry == 2      \* calls of catchAsync in a run

Invs == 1..MaxInv

\* ---------------------------------------------------------------- values
\* JavaScript values that can be thrown, rejected with or passed to next.
\* id is the object identity (0 for primitives), text the message of an
\* Error or the characters of a string.
NoVal == [type |-> "none", id |-> 0, text |-> ""]
ErrA == [type |-> "Error", id |-> 1, text |-> "a"]
ErrB == [type |-> "Error", id |-> 2, text |-> "b"]
StrBoom == [type |-> "string", id |-> 0, text |-> "boom"]
NullProto == [type |-> "nullProtoObject", id |-> 3, text |-> ""]

\* what a body can throw or reject with
Thrown == {ErrB, StrBoom, NullProto}
\* argument lists of an explicit next(...) call
NextArgs == {<< >>, <<ErrA>>}

\* identity given to an Error created by `new Error(...)` inside the wrapper
NewErrorId == 100

\* s contains t as a substring
Contains(s, t) ==
  \E b \in 1..(Len(s) + 1) : \E e \in 0..Len(s) : SubSeq(s, b, e) = t

\* err instanceof Error
IsError(v) == v.type = "Error"

\* String(err): defined for primitives and ordinary objects; an object
\* without a prototype has no toString/valueOf and String() throws TypeError
CanString(v) == v.type # "nullProtoObject"
String(v) ==
  CASE v.type = "string" -> v.text
    [] v.type = "Error" -> "Error: " \o v.text
    [] OTHER -> ""

SyncPrefix == "Non-Error thrown synchronously: "
AsyncPrefix == "Non-Error thrown/rejected: "

NewError(msg) == [type |-> "Error", id |-> NewErrorId, text |-> msg]

\* errorToPass of the promise catch callback (lines 109-112)
ErrorToPassAsync(err) ==
  IF IsError(err) THEN err ELSE NewError(AsyncPrefix \o String(err))

\* mutant: the thrown value is passed on as it is
ErrorToPassSyncRaw(err) == err

\* errorToPass of the synchronous catch block (lines 123-126)
ErrorToPassSync(err) ==
  IF IsError(err) THEN err ELSE NewError(SyncPrefix \o String(err))

\* building errorToPass completes (String(err) does not throw)
CanPass(err) == IsError(err) \/ CanString(err)

\* ------------------------------------------------------------- arguments
\* The host's argument lists for a callable of the given declared arity: the
\* request handler shape (req, res, next) or the error handler shape
\* (err, req, res, next), the same with a last argument that is not callable,
\* and the empty list.  "next" is the invocation's continuation, the only
\* callable argument value.
Leading(n) == IF n = 4 THEN <<"err", "req", "res">> ELSE <<"req", "res">>

ArgLists(n) ==
  { Append(Leading(n), "next"), Append(Leading(n), "notfn"), << >> }

\* The host's argument lists that are shorter than the declared arity n and
\* end with the continuation: (next), (req, next), and for an error handler
\* (err, req, next).
ShortArgLists(n) ==
  { Append(SubSeq(Leading(n), 1, k), "next") : k \in 0..(n - 2) }

\* mutant: a truthiness test instead of typeof
isFunctionTruthy(a) == a # "undefined"

\* typeof fn === "function" (lines 29-31)
isFunction(a) == a = "next"

\* args[args.length - 1]; undefined for an empty list
LastArg(a) == IF Len(a) = 0 THEN "undefined" ELSE a[Len(a)]

\* the receivers a caller invokes the wrapped callable on: none (a plain
\* call by the host) or a controller instance (a method call)
Receivers == {"undefined", "controller"}

\* the original callable has not been applied
NotApplied == [receiver |-> "none", args |-> << >>]

\* mutant: the original is called as a plain function
ApplyOriginalNoThis(t, a) ==
  [receiver |-> "undefined", args |-> [a EXCEPT ![Len(a)] = "wrappedNext"]]

\* args[args.length - 1] = wrappedNext; fn.apply(this, args) (lines 101,
\* 104): the receiver and the arguments the original callable gets
ApplyOriginal(t, a) ==
  [receiver |-> t, args |-> [a EXCEPT ![Len(a)] = "wrappedNext"]]

\* --------------------------------------------------------- entry point
\* The callables handed to wrapHandler: a request handler written as an
\* arrow function and an error handler written as an async function.
HandlerTargets ==
  { [kind |-> "arrow", arity |-> 3], [kind |-> "async", arity |-> 4] }

\* The plain callbacks handed to catchAsync: the same, and a request handler
\* written with the function keyword.
Targets == HandlerTargets \cup { [kind |-> "function", arity |-> 3] }

\* target.prototype && typeof target.prototype === "object": arrow functions
\* and async functions have no prototype property, a function written with
\* the function keyword has an (empty) prototype object.
HasPrototypeObject(kind) == kind = "function"

\* catchAsync(target) for a callable target: "wrapped" when the result is
\* wrapHandler(target), "raw" when it is the target itself (returned by
\* wrapControllerClass after walking a prototype that has no methods).
catchAsync(kind) ==
  IF HasPrototypeObject(kind) THEN "raw" ELSE "wrapped"

\* ----------------------------------------------------------------- state
VARIABLES
  kind,           \* kind of the callable given to catchAsync
  arity,          \* fn.length of that callable
  mode,           \* "wrapped" or "raw": what catchAsync returned
  hasCalledNext,  \* the flag declared in wrapHandler (line 56)
  stack,          \* synchronous call stack of invocations, top last
  started,        \* number of invocations started so far
  phase,          \* per invocation: idle, sync, pending, late, aborted
  args,           \* per invocation: the argument list it was called with
  fnInvoked,      \* per invocation: times the original callable was run
  calls,          \* per invocation: argument lists its continuation got
  explicit,       \* per invocation: explicit continuation calls it made
  failure,        \* per invocation: value thrown or rejected with
  result,         \* per invocation: how the call ended, see Results
  thisArg,        \* the receiver the callers invoke the returned value on
  applied,        \* per invocation: receiver and arguments the original got
  laterFailures   \* per invocation: sub-operations that failed after the
                  \* promise of the body had settled

\* what the invocation actions other than Invoke leave alone
dvars == <<thisArg, applied, laterFailures>>

vars == <<kind, arity, mode, hasCalledNext, stack, started, phase, args,
          fnInvoked, calls, explicit, failure, result, dvars>>

\* State of the class walk (SpecBundle).
VARIABLES
  parent,         \* per level: what Object.getPrototypeOf gives for it
  offset,         \* which member shapes the levels of this heap carry
  depth,          \* per level and key: times the member value got wrapped
  bpc,            \* "idle", or "walking" inside wrapControllerClass
  target,         \* the value given to the current or last catchAsync call
  cur,            \* the level the next processPrototype call is given
  processed,      \* processedPrototypes of the current call
  visits,         \* per level: times the current call processed it
  entries,        \* catchAsync calls made so far
  ret             \* how the last catchAsync call ended

bvars == <<parent, offset, depth, bpc, target, cur, processed, visits,
           entries, ret>>

\* State of the error middleware (SpecMw).
VARIABLES
  mwErr,          \* the value given to errorMiddleware
  mpc,            \* "ready", "sent" or "threw"
  statusCalls,    \* arguments of the res.status calls
  jsonCalls,      \* arguments of the res.json calls
  nextCalls,      \* times errorMiddleware called its _next
  instance,       \* the ErrorHandler the application constructed last
  handled         \* how a direct call handleCommonErrors(mwErr) ended

mvars == <<mwErr, mpc, statusCalls, jsonCalls, nextCalls, instance, handled>>

\* How a call of the returned value ends: it has not returned yet ("none"),
\* returned the body's own non-promise value ("value"), returned undefined
\* ("undefined"), let an exception out ("threw"), or returned a promise that
\* is "pending", "fulfilled" or "rejected".
Results ==
  {"none", "value", "undefined", "threw", "pending", "fulfilled", "rejected"}

Top == IF stack = << >> THEN 0 ELSE stack[Len(stack)]
Pop == SubSeq(stack, 1, Len(stack) - 1)

\* ------------------------------------------------------ prototype heap
\* Levels are prototype objects.  ObjProto is Object.prototype, NullLevel
\* stands for a null prototype, NoLevel for "no prototype property".
Levels == 1..MaxLevels
ObjProto == 0
NullLevel == -1
NoLevel == -2
AllLevels == Levels \cup {ObjProto}

\* Object.getOwnPropertyNames(prototype), in order
Keys == <<"constructor", "x", "m">>
KeySet == {Keys[n] : n \in 1..Len(Keys)}

\* The own property a level holds under a key:
\*   kind          data property or accessor property
\*   callable      the data value is a function
\*   ownProto      that function has an own "prototype" property (written
\*                 with the function keyword, or a class)
\*   ownAccessor   that function carries an own accessor property
\*   configurable, writable   attributes of the property on the level
Shape(s) ==
  CASE s = "method" ->
         [kind |-> "data", callable |-> TRUE, ownProto |-> FALSE,
          ownAccessor |-> FALSE, configurable |-> TRUE, writable |-> TRUE]
    [] s = "funcExpr" ->
         [kind |-> "data", callable |-> TRUE, ownProto |-> TRUE,
          ownAccessor |-> FALSE, configurable |-> TRUE, writable |-> TRUE]
    [] s = "accessorFn" ->
         [kind |-> "data", callable |-> TRUE, ownProto |-> FALSE,
          ownAccessor |-> TRUE, configurable |-> TRUE, writable |-> TRUE]
    [] s = "frozenMethod" ->
         [kind |-> "data", callable |-> TRUE, ownProto |-> FALSE,
          ownAccessor |-> FALSE, configurable |-> FALSE, writable |-> FALSE]
    [] s = "getter" ->
         [kind |-> "accessor", callable |-> FALSE, ownProto |-> FALSE,
          ownAccessor |-> FALSE, configurable |-> TRUE, writable |-> FALSE]
    [] OTHER ->
         [kind |-> "data", callable |-> FALSE, ownProto |-> FALSE,
          ownAccessor |-> FALSE, configurable |-> TRUE, writable |-> TRUE]

XShapes == <<"method", "funcExpr", "accessorFn", "frozenMethod", "getter",
             "value">>
Offsets == 0..(Len(XShapes) - 1)

\* The shape of the member of level l under key k in the heap chosen by
\* offset o.  Every level has a class-syntax method m; x rotates through
\* XShapes; constructor is a class or function (own prototype) or, for a
\* prototype written as an object literal, a shorthand method.
\* Object.prototype: constructor is Object, x is the __proto__ accessor, m is
\* a built-in method such as toString.
ShapeName(o, l, k) ==
  IF l = ObjProto
    THEN (CASE k = "constructor" -> "funcExpr" [] k = "x" -> "getter"
            [] OTHER -> "method")
    ELSE CASE k = "constructor" ->
                (IF (l + o) % 3 = 1 THEN "method" ELSE "funcExpr")
           [] k = "x" -> XShapes[((l + o) % Len(XShapes)) + 1]
           [] OTHER -> "method"

Descriptor(o, l, k) == Shape(ShapeName(o, l, k))

\* Parent links of a heap: each level extends the next one or the last one,
\* the last level extends Object.prototype, nothing, or (as a proxy can
\* report) any level, itself included.
ParentMaps ==
  { f \in [Levels -> Levels \cup {ObjProto, NullLevel}] :
      \A l \in Levels :
        l < MaxLevels => f[l] \in {l + 1, MaxLevels} }

\* ------------------------------------------------------ entry-point inputs
\* an own property of a function: a data property with a value, or an
\* accessor property with a getter
Prop(k, kd, en, v) == [key |-> k, kind |-> kd, enumerable |-> en, value |-> v]

\* The own properties, other than name, length and prototype, of the
\* function with identity i: an enumerable data property (as the test
\* "should preserve function properties" sets), a data property that is not
\* enumerable, an accessor property; none for the other functions.
OwnProps(i) ==
  CASE i = 23 -> {Prop("customProp", "data", TRUE, "test")}
    [] i = 24 -> {Prop("hidden", "data", FALSE, "secret")}
    [] i = 25 -> {Prop("computed", "accessor", TRUE, "getter")}
    [] OTHER -> {}

\* Values given to catchAsync.  id is the object identity (0 for
\* primitives); proto is the level target.prototype refers to, or NoLevel;
\* name and length are the function's name and declared arity; props are
\* its other own properties.
Value(t, i, p, n, len) ==
  [type |-> t, id |-> i, proto |-> p, name |-> n, length |-> len,
   props |-> OwnProps(i)]

NullV == Value("null", 0, NoLevel, "", 0)
UndefinedV == Value("undefined", 0, NoLevel, "", 0)
Number42 == Value("number", 0, NoLevel, "", 0)
PlainObject == Value("object", 9, NoLevel, "", 0)

\* the class (or constructor function) whose prototype property is level l
ClassOf(l) == Value("function", 10 + l, l, "Controller", 0)

\* plain callbacks: arrow functions, anonymous or named, of arity 3 or 4
ArrowFns ==
  { Value("function", 20, NoLevel, "", 3),
    Value("function", 21, NoLevel, "getUsers", 3),
    Value("function", 22, NoLevel, "onError", 4),
    Value("function", 23, NoLevel, "withProp", 3),
    Value("function", 24, NoLevel, "withHidden", 3),
    Value("function", 25, NoLevel, "withGetter", 3) }

EntryInputs ==
  {NullV, UndefinedV, Number42, PlainObject}
    \cup {ClassOf(l) : l \in AllLevels} \cup ArrowFns

\* identity of the function object wrapHandler creates
NewFnId == 200

NoRet == [kind |-> "none", value |-> NullV]

\* the walk is not in use (Spec, SpecEntry, SpecMw)
BundleUnused ==
  /\ parent = [l \in Levels |-> ObjProto]
  /\ offset = 0
  /\ depth = [l \in AllLevels |-> [k \in KeySet |-> 0]]
  /\ bpc = "idle"
  /\ target = NullV
  /\ cur = NoLevel
  /\ processed = {}
  /\ visits = [l \in AllLevels |-> 0]
  /\ entries = 0
  /\ ret = NoRet

\* ------------------------------------------------ error-handling values
\* key set of the errorCodes map
errorCodeKeys ==
  (400..418) \cup (421..426) \cup {428, 429, 431, 451}
    \cup (500..508) \cup {510, 511}

errorCodes ==
  [c \in errorCodeKeys |->
     CASE c = 400 -> "Bad Request"
       [] c = 401 -> "Unauthorized"
       [] c = 402 -> "Payment Required"
       [] c = 403 -> "Forbidden"
       [] c = 404 -> "Not Found"
       [] c = 405 -> "Method Not Allowed"
       [] c = 406 -> "Not Acceptable"
       [] c = 407 -> "Proxy Authentication Required"
       [] c = 408 -> "Request Timeout"
       [] c = 409 -> "Conflict"
       [] c = 410 -> "Gone"
       [] c = 411 -> "Length Required"
       [] c = 412 -> "Precondition Failed"
       [] c = 413 -> "Payload Too Large"
       [] c = 414 -> "URI Too Long"
       [] c = 415 -> "Unsupported Media Type"
       [] c = 416 -> "Range Not Satisfiable"
       [] c = 417 -> "Expectation Failed"
       [] c = 418 -> "I'm a teapot"
       [] c = 421 -> "Misdirected Request"
       [] c = 422 -> "Unprocessable Content"
       [] c = 423 -> "Locked"
       [] c = 424 -> "Failed Dependency"
       [] c = 425 -> "Too Early"
       [] c = 426 -> "Upgrade Required"
       [] c = 428 -> "Precondition Required"
       [] c = 429 -> "Too Many Requests"
       [] c = 431 -> "Request Header Fields Too Large"
       [] c = 451 -> "Unavailable For Legal Reasons"
       [] c = 500 -> "Internal Server Error"
       [] c = 501 -> "Not Implemented"
       [] c = 502 -> "Bad Gateway"
       [] c = 503 -> "Service Unavailable"
       [] c = 504 -> "Gateway Timeout"
       [] c = 505 -> "HTTP Version Not Supported"
       [] c = 506 -> "Variant Also Negotiates"
       [] c = 507 -> "Insufficient Storage"
       [] c = 508 -> "Loop Detected"
       [] c = 510 -> "Not Extended"
       [] OTHER -> "Network Authentication Required"]

\* errorCodes.has(c) and errorCodes.get(c)
errorCodesHas(c) == c \in errorCodeKeys
UndefinedText == "undefined"
errorCodesGet(c) == IF errorCodesHas(c) THEN errorCodes[c] ELSE UndefinedText

\* an argument that is undefined or left out: a status code, a message
Omitted == -1
OmittedMessage == "<undefined>"

\* err.code: undefined, a string or a number
Code(t, v) == [t |-> t, v |-> v]
NoCode == Code("undefined", "")
ErrCodes ==
  {NoCode, Code("string", "ENOENT"), Code("number", "11000"),
   Code("string", "11000"), Code("string", "EBADCSRFTOKEN"),
   Code("string", "ECONNREFUSED"), Code("string", "ECONNRESET"),
   Code("string", "ETIMEDOUT"), Code("string", "EACCES")}

ErrNames ==
  {"Error", "CastError", "ValidationError", "JsonWebTokenError",
   "TokenExpiredError", "AxiosError"}

\* The values given to the middleware as err.  For an object: its name,
\* code, message and statusCode fields (Omitted: undefined), whether it has
\* an errors field and the messages of that field's values, the path of a
\* CastError and the keys of keyValue.
Err(t, n, c, m, sc, he, es) ==
  [type |-> t, name |-> n, code |-> c, message |-> m, statusCode |-> sc,
   hasErrors |-> he, errors |-> es, path |-> "id", keys |-> <<"email">>]

Primitive(t) == Err(t, "", NoCode, "", Omitted, FALSE, << >>)
NullErr == Primitive("null")
UndefinedErr == Primitive("undefined")

ErrObjects ==
  { Err("object", n, c, m, sc, he, es) :
      n \in ErrNames, c \in ErrCodes, m \in {"", "boom"},
      sc \in {Omitted, 404, 999}, he \in BOOLEAN,
      es \in {<<"a is required">>, <<"a is required", "b is invalid">>} }

MwErrors ==
  {NullErr, UndefinedErr, Primitive("number"), Primitive("string")}
    \cup ErrObjects

NoInstance == [message |-> "", statusCode |-> 0, statusText |-> ""]

\* how a call that yields an ErrorHandler ended; NotHandled: not called
Returned(e) == [threw |-> FALSE, called |-> TRUE, error |-> e]
ThrewTypeError == [threw |-> TRUE, called |-> TRUE, error |-> NoInstance]
NotHandled == [threw |-> FALSE, called |-> FALSE, error |-> NoInstance]

\* the middleware is not in use (Spec, SpecEntry, SpecBundle)
MwUnused ==
  /\ mwErr = NullErr
  /\ mpc = "unused"
  /\ statusCalls = << >>
  /\ jsonCalls = << >>
  /\ nextCalls = 0
  /\ instance = NoInstance
  /\ handled = NotHandled

\* no invocation yet; the flag as line 56 initialises it
NotInvoked ==
  /\ hasCalledNext = FALSE
  /\ stack = << >>
  /\ started = 0
  /\ phase = [i \in Invs |-> "idle"]
  /\ args = [i \in Invs |-> << >>]
  /\ fnInvoked = [i \in Invs |-> 0]
  /\ calls = [i \in Invs |-> << >>]
  /\ explicit = [i \in Invs |-> 0]
  /\ failure = [i \in Invs |-> NoVal]
  /\ result = [i \in Invs |-> "none"]
  /\ applied = [i \in Invs |-> NotApplied]
  /\ laterFailures = [i \in Invs |-> 0]

\* after wrapHandler(fn); the host calls a handler without a receiver
Init ==
  /\ \E t \in HandlerTargets : kind = t.kind /\ arity = t.arity
  /\ mode = "wrapped"
  /\ thisArg = "undefined"
  /\ NotInvoked
  /\ BundleUnused
  /\ MwUnused

\* after catchAsync(target)
InitEntry ==
  /\ \E t \in Targets : kind = t.kind /\ arity = t.arity
  /\ mode = catchAsync(kind)
  /\ thisArg = "undefined"
  /\ NotInvoked
  /\ BundleUnused
  /\ MwUnused

\* ------------------------------------------------------ guarded next
\* mutant: the flag is tested but never set
wrappedNextNoSet(i, nextArgs) ==
  IF hasCalledNext
    THEN UNCHANGED <<hasCalledNext, calls>>
    ELSE /\ UNCHANGED hasCalledNext
         /\ calls' = [calls EXCEPT ![i] = Append(@, nextArgs)]

\* wrappedNext(...nextArgs) of invocation i (lines 87-98): dropped when the
\* flag is set, otherwise the flag is set and next is called with the same
\* arguments.
wrappedNext(i, nextArgs) ==
  IF hasCalledNext
    THEN UNCHANGED <<hasCalledNext, calls>>
    ELSE /\ hasCalledNext' = TRUE
         /\ calls' = [calls EXCEPT ![i] = Append(@, nextArgs)]

\* explicit continuation calls made so far by all invocations
RECURSIVE SumTo(_)
SumTo(n) == IF n = 0 THEN 0 ELSE explicit[n] + SumTo(n - 1)
NExplicit == SumTo(MaxInv)

\* the synchronous part of invocation i is the running code
Running(i) == i \in Invs /\ Top = i /\ phase[i] = "sync"

\* code of invocation i that runs from the event loop (after an await, or a
\* timer callback it scheduled)
Resumable(i) == stack = << >> /\ phase[i] \in {"pending", "late"}

\* ---------------------------------------------------------------- actions
\* The host (stack empty) or the running body (re-entrantly) invokes the
\* value returned by catchAsync with argument list a.  wrappedHandler lines
\* 65-104: the flag is reset, a non-callable last argument aborts the call,
\* otherwise the original callable is applied.  A raw callable is simply run.
Invoke(i, a) ==
  /\ phase[i] = "idle"
  /\ i = started + 1
  /\ stack = << >> \/ Running(Top)
  /\ started' = i
  /\ args' = [args EXCEPT ![i] = a]
  /\ IF mode = "wrapped"
       THEN /\ hasCalledNext' = FALSE
            /\ IF isFunction(LastArg(a))
                 THEN /\ phase' = [phase EXCEPT ![i] = "sync"]
                      /\ stack' = Append(stack, i)
                      /\ fnInvoked' = [fnInvoked EXCEPT ![i] = @ + 1]
                      /\ UNCHANGED result
                 ELSE /\ phase' = [phase EXCEPT ![i] = "aborted"]
                      /\ result' = [result EXCEPT ![i] = "undefined"]
                      /\ UNCHANGED <<stack, fnInvoked>>
       ELSE /\ phase' = [phase EXCEPT ![i] = "sync"]
            /\ stack' = Append(stack, i)
            /\ fnInvoked' = [fnInvoked EXCEPT ![i] = @ + 1]
            /\ UNCHANGED <<hasCalledNext, result>>
  /\ applied' = [applied EXCEPT ![i] =
                    IF mode = "wrapped"
                      THEN IF isFunction(LastArg(a))
                             THEN ApplyOriginal(thisArg, a)
                             ELSE NotApplied
                      ELSE [receiver |-> thisArg, args |-> a]]
  /\ UNCHANGED <<bvars, mvars, kind, arity, mode, calls, explicit, failure,
                 thisArg, laterFailures>>

\* The body of invocation i calls the continuation it was given: the guarded
\* continuation when wrapped, the caller's own continuation when raw.  An
\* exception of the continuation is caught by the body, which may go on to
\* throw.
CallNext(i, nextArgs) ==
  /\ Running(i) \/ Resumable(i)
  /\ isFunction(LastArg(args[i]))
  /\ NExplicit < MaxCalls
  /\ explicit' = [explicit EXCEPT ![i] = @ + 1]
  /\ IF mode = "wrapped"
       THEN wrappedNext(i, nextArgs)
       ELSE /\ calls' = [calls EXCEPT ![i] = Append(@, nextArgs)]
            /\ UNCHANGED hasCalledNext
  /\ UNCHANGED <<bvars, mvars, dvars, kind, arity, mode, stack, started, phase, args,
                 fnInvoked, failure, result>>

\* The body throws err synchronously.  Wrapped: the catch block, lines
\* 121-131; String(err) may throw inside it, and so may the caller's
\* continuation (nextThrows), and that exception leaves wrappedHandler.
\* Raw: the exception reaches the caller.  (A throw inside an async function
\* is a rejection of the promise it returns: ReturnPromise, then Reject.)
ThrowSync(i, err) ==
  /\ Running(i)
  /\ kind # "async"
  /\ failure' = [failure EXCEPT ![i] = err]
  /\ stack' = Pop
  /\ phase' = [phase EXCEPT ![i] = "late"]
  /\ IF mode = "raw"
       THEN /\ result' = [result EXCEPT ![i] = "threw"]
            /\ UNCHANGED <<hasCalledNext, calls>>
       ELSE IF hasCalledNext
         THEN /\ result' = [result EXCEPT ![i] = "undefined"]
              /\ UNCHANGED <<hasCalledNext, calls>>
         ELSE IF ~CanPass(err)
           THEN /\ result' = [result EXCEPT ![i] = "threw"]
                /\ UNCHANGED <<hasCalledNext, calls>>
           ELSE /\ wrappedNext(i, <<ErrorToPassSync(err)>>)
                /\ \E nextThrows \in BOOLEAN :
                     result' = [result EXCEPT ![i] =
                                  IF nextThrows THEN "threw" ELSE "undefined"]
  /\ UNCHANGED <<bvars, mvars, dvars, kind, arity, mode, started, args, fnInvoked,
                 explicit>>

\* The body returns a value that is not a promise (line 120).
ReturnValue(i) ==
  /\ Running(i)
  /\ kind # "async"
  /\ stack' = Pop
  /\ phase' = [phase EXCEPT ![i] = "late"]
  /\ result' = [result EXCEPT ![i] = "value"]
  /\ UNCHANGED <<bvars, mvars, dvars, kind, arity, mode, hasCalledNext, started, args,
                 fnInvoked, calls, explicit, failure>>

\* The body returns a pending promise (an async function reaching its first
\* await, or a function returning a promise): lines 106-118 attach the catch
\* callback and return the derived promise.
ReturnPromise(i) ==
  /\ Running(i)
  /\ stack' = Pop
  /\ phase' = [phase EXCEPT ![i] = "pending"]
  /\ result' = [result EXCEPT ![i] = "pending"]
  /\ UNCHANGED <<bvars, mvars, dvars, kind, arity, mode, hasCalledNext, started, args,
                 fnInvoked, calls, explicit, failure>>

\* The promise of the body rejects with err and the catch callback of lines
\* 107-117 runs; an exception inside the callback (String(err), or the
\* caller's continuation when nextThrows) rejects the promise the wrapper
\* returned.  Raw: the promise the caller holds rejects.
Reject(i, err) ==
  /\ stack = << >>
  /\ phase[i] = "pending"
  /\ failure' = [failure EXCEPT ![i] = err]
  /\ phase' = [phase EXCEPT ![i] = "late"]
  /\ IF mode = "raw"
       THEN /\ result' = [result EXCEPT ![i] = "rejected"]
            /\ UNCHANGED <<hasCalledNext, calls>>
       ELSE IF hasCalledNext
         THEN /\ result' = [result EXCEPT ![i] = "fulfilled"]
              /\ UNCHANGED <<hasCalledNext, calls>>
         ELSE IF ~CanPass(err)
           THEN /\ result' = [result EXCEPT ![i] = "rejected"]
                /\ UNCHANGED <<hasCalledNext, calls>>
           ELSE /\ wrappedNext(i, <<ErrorToPassAsync(err)>>)
                /\ \E nextThrows \in BOOLEAN :
                     result' = [result EXCEPT ![i] =
                                  IF nextThrows THEN "rejected" ELSE "fulfilled"]
  /\ UNCHANGED <<bvars, mvars, dvars, kind, arity, mode, stack, started, args,
                 fnInvoked, explicit>>

\* The promise of the body fulfils; the derived promise fulfils with it.
Fulfil(i) ==
  /\ stack = << >>
  /\ phase[i] = "pending"
  /\ phase' = [phase EXCEPT ![i] = "late"]
  /\ result' = [result EXCEPT ![i] = "fulfilled"]
  /\ UNCHANGED <<bvars, mvars, dvars, kind, arity, mode, hasCalledNext, stack, started,
                 args, fnInvoked, calls, explicit, failure>>

Next ==
  \/ \E i \in Invs, a \in ArgLists(arity) : Invoke(i, a)
  \/ \E i \in Invs, nextArgs \in NextArgs : CallNext(i, nextArgs)
  \/ \E i \in Invs, err \in Thrown : ThrowSync(i, err)
  \/ \E i \in Invs : ReturnValue(i)
  \/ \E i \in Invs : ReturnPromise(i)
  \/ \E i \in Invs, err \in Thrown : Reject(i, err)
  \/ \E i \in Invs : Fulfil(i)

Spec == Init /\ [][Next]_vars

SpecEntry == InitEntry /\ [][Next]_vars

\* after wrapHandler(fn) of a request handler that is also used as a
\* method: the callers invoke the wrapper on a receiver
InitThis ==
  /\ kind = "arrow"
  /\ arity = 3
  /\ mode = "wrapped"
  /\ thisArg \in Receivers
  /\ NotInvoked
  /\ BundleUnused
  /\ MwUnused

SpecThis == InitThis /\ [][Next]_vars

\* The body of invocation i awaited several sub-operations combined into
\* one promise (Promise.all), the first failure rejected the combined
\* promise and with it the promise of the body, and now another
\* sub-operation fails: the combined promise is settled and ignores it, no
\* code of the wrapper runs.
LaterFailure(i) ==
  /\ stack = << >>
  /\ phase[i] = "late"
  /\ result[i] \in {"fulfilled", "rejected"}
  /\ failure[i] # NoVal
  /\ laterFailures[i] = 0
  /\ laterFailures' = [laterFailures EXCEPT ![i] = 1]
  /\ UNCHANGED <<bvars, mvars, kind, arity, mode, hasCalledNext, stack,
                 started, phase, args, fnInvoked, calls, explicit, failure,
                 result, thisArg, applied>>

\* the invocations are made with fewer arguments than the declared arity
NextShort ==
  \/ \E i \in Invs, a \in ShortArgLists(arity) : Invoke(i, a)
  \/ \E i \in Invs, nextArgs \in NextArgs : CallNext(i, nextArgs)
  \/ \E i \in Invs, err \in Thrown : ThrowSync(i, err)
  \/ \E i \in Invs : ReturnValue(i)
  \/ \E i \in Invs : ReturnPromise(i)
  \/ \E i \in Invs, err \in Thrown : Reject(i, err)
  \/ \E i \in Invs : Fulfil(i)

SpecShort == Init /\ [][NextShort]_vars

NextAll ==
  \/ Next
  \/ \E i \in Invs : LaterFailure(i)

\* wrapHandler(fn) of a callable whose bodies combine sub-operations
SpecAll == Init /\ [][NextAll]_vars

\* ============================================== entry point and class walk
allvars == <<vars, bvars, mvars>>

\* the handler invocations are not in use (SpecBundle, SpecMw)
HandlerUnused ==
  /\ kind = "arrow"
  /\ arity = 3
  /\ mode = "wrapped"
  /\ thisArg = "undefined"
  /\ NotInvoked

\* typeof target === "function"
isFunctionTarget(t) == t.type = "function"

\* target.prototype && typeof target.prototype === "object" (lines 347-348)
HasPrototype(t) == t.proto # NoLevel

\* mutant: the final throw is missing, the target goes to wrapHandler
DispatchNoThrow(t) ==
  IF t.type \in {"null", "undefined"} THEN "passthrough"
  ELSE IF isFunctionTarget(t) /\ HasPrototype(t) THEN "class"
  ELSE "handler"

\* The branch catchAsync takes (lines 338-358): return the target, call
\* wrapControllerClass, call wrapHandler, or throw a TypeError.
Dispatch(t) ==
  IF t.type \in {"null", "undefined"} THEN "passthrough"
  ELSE IF isFunctionTarget(t) /\ HasPrototype(t) THEN "class"
  ELSE IF isFunctionTarget(t) THEN "handler"
  ELSE "TypeError"

\* mutant: no fallback name
OriginalNameNoDefault(f) == f.name

\* fn.name || "handler" (line 59)
OriginalName(f) == IF f.name = "" THEN "handler" ELSE f.name

WrappedPrefix == "wrapped_"

\* the prototype object a function expression is created with
FreshProto == -3

\* wrapHandler(f) for a function f whose properties can be copied: a new
\* function expression named wrapped_<name> with f's length (lines 60,
\* 135-148); something that is not a function is returned as it is (lines
\* 50-53).
WrapHandler(f) ==
  IF ~isFunctionTarget(f) THEN f
  ELSE [Value("function", NewFnId, FreshProto,
              WrappedPrefix \o OriginalName(f), f.length)
          EXCEPT !.props = f.props]

\* fn carries an own accessor property
HasAccessor(f) == \E q \in f.props : q.kind = "accessor"

\* mutant: the copy loop skips the prototype property as well
wrapHandlerThrowsAccessorOnly(ownProto, ownAccessor) == ownAccessor

\* The copy loop of wrapHandler (lines 151-163) throws a TypeError: it
\* redefines every own property of fn other than name and length on the
\* wrapper with configurable and writable set.  The wrapper is a function
\* expression and has a non-configurable prototype property of its own, so
\* copying fn's "prototype" fails; an accessor descriptor with a writable
\* attribute is invalid.
wrapHandlerThrows(ownProto, ownAccessor) == ownProto \/ ownAccessor

\* Object.defineProperty(prototype, key, {...descriptor, value}) throws
\* (lines 223-226): the value of a property that is neither configurable
\* nor writable cannot be replaced.
definePropertyThrows(desc) == ~desc.configurable /\ ~desc.writable

\* mutant: the constructor is treated like any other key
SkipKeyNever(k) == FALSE

\* key === "constructor" (line 211)
SkipKey(k) == k = "constructor"

\* mutant: the member's exception is not caught
CatchMemberRethrow(d) == [depth |-> d, threw |-> TRUE]

\* the catch block of the member loop (lines 227-234): the member stays as
\* it was and the loop goes on
CatchMember(d) == [depth |-> d, threw |-> FALSE]

\* One iteration of the member loop (lines 209-236) for a member with
\* descriptor desc whose value has been wrapped d times.  A value that is
\* already a wrapper is a function expression: it has an own prototype
\* property and the own properties wrapHandler copied as data properties.
MemberStep(desc, k, d) ==
  IF SkipKey(k) \/ desc.kind # "data" \/ ~desc.callable
    THEN [depth |-> d, threw |-> FALSE]
    ELSE LET ownProto == IF d > 0 THEN TRUE ELSE desc.ownProto
             ownAccessor == IF d > 0 THEN FALSE ELSE desc.ownAccessor
         IN  IF wrapHandlerThrows(ownProto, ownAccessor)
                  \/ definePropertyThrows(desc)
               THEN CatchMember(d)
               ELSE [depth |-> d + 1, threw |-> FALSE]

\* the member loop over the keys from position n on; dl maps the keys of
\* level l to their depths
RECURSIVE LoopKeys(_, _, _, _)
LoopKeys(o, l, n, dl) ==
  IF n > Len(Keys)
    THEN [depths |-> dl, threw |-> FALSE]
    ELSE LET k == Keys[n]
             r == MemberStep(Descriptor(o, l, k), k, dl[k])
         IN  IF r.threw
               THEN [depths |-> dl, threw |-> TRUE]
               ELSE LoopKeys(o, l, n + 1, [dl EXCEPT ![k] = r.depth])

\* Object.getPrototypeOf(prototype)
GetPrototypeOf(l) == IF l = ObjProto THEN NullLevel ELSE parent[l]

\* mutant: the visited set is never consulted
AlreadyProcessedNever(l, seen) == FALSE

\* processedPrototypes.has(prototype) (line 201)
AlreadyProcessed(l, seen) == l \in seen

InitBundle ==
  /\ parent \in ParentMaps
  /\ offset \in Offsets
  /\ depth = [l \in AllLevels |-> [k \in KeySet |-> 0]]
  /\ bpc = "idle"
  /\ target = NullV
  /\ cur = NoLevel
  /\ processed = {}
  /\ visits = [l \in AllLevels |-> 0]
  /\ entries = 0
  /\ ret = NoRet
  /\ HandlerUnused
  /\ MwUnused

\* catchAsync(t), lines 334-359.  For a class the walk starts at
\* constructor.prototype with a new visited set (lines 198, 245).  For a
\* plain callback the TypeError of wrapHandler's copy loop is not caught.
CatchAsyncCall(t) ==
  /\ bpc = "idle"
  /\ entries < MaxEntry
  /\ entries' = entries + 1
  /\ target' = t
  /\ LET route == Dispatch(t)
     IN  IF route = "class"
           THEN /\ bpc' = "walking"
                /\ cur' = t.proto
                /\ processed' = {}
                /\ visits' = [l \in AllLevels |-> 0]
                /\ ret' = NoRet
           ELSE /\ ret' = CASE route = "passthrough" ->
                                  [kind |-> "returned", value |-> t]
                             [] route = "handler"
                                  /\ ~wrapHandlerThrows(FALSE, HasAccessor(t)) ->
                                  [kind |-> "returned", value |-> WrapHandler(t)]
                             [] OTHER ->
                                  [kind |-> "TypeError", value |-> NullV]
                /\ UNCHANGED <<bpc, cur, processed, visits>>
  /\ UNCHANGED <<parent, offset, depth, vars, mvars>>

\* One call of processPrototype (lines 200-243): return when the level was
\* processed before; otherwise mark it, run the member loop, and go on to
\* the parent unless there is none or it is Object.prototype.  When the walk
\* ends wrapControllerClass returns the constructor (line 247).
ProcessPrototype ==
  /\ bpc = "walking"
  /\ IF AlreadyProcessed(cur, processed)
       THEN /\ bpc' = "idle"
            /\ ret' = [kind |-> "returned", value |-> target]
            /\ UNCHANGED <<depth, processed, visits, cur>>
       ELSE LET r == LoopKeys(offset, cur, 1, depth[cur])
                p == GetPrototypeOf(cur)
            IN  /\ processed' = processed \cup {cur}
                /\ visits' = [visits EXCEPT ![cur] = @ + 1]
                /\ depth' = [depth EXCEPT ![cur] = r.depths]
                /\ IF r.threw
                     THEN /\ bpc' = "idle"
                          /\ ret' = [kind |-> "TypeError", value |-> NullV]
                          /\ UNCHANGED cur
                     ELSE IF p # NullLevel /\ p # ObjProto
                       THEN /\ cur' = p
                            /\ UNCHANGED <<bpc, ret>>
                       ELSE /\ bpc' = "idle"
                            /\ ret' = [kind |-> "returned", value |-> target]
                            /\ UNCHANGED cur
  /\ UNCHANGED <<parent, offset, target, entries, vars, mvars>>

NextBundle ==
  \/ \E t \in EntryInputs : CatchAsyncCall(t)
  \/ ProcessPrototype

SpecBundle == InitBundle /\ [][NextBundle]_allvars

\* processPrototype runs to completion on the single thread: a walk that can
\* take a step takes it
SpecBundleFair == SpecBundle /\ WF_allvars(ProcessPrototype)

\* ================================================ ErrorHandler, middleware
DefaultMessage == "Something went wrong! Please try again"

\* mutant: the given status code is kept whatever it is
ValidStatusCodeAny(sc) == sc

\* errorCodes.has(statusCode) ? statusCode : 500 (part_001 line 35)
ValidStatusCode(sc) == IF errorCodesHas(sc) THEN sc ELSE 500

\* new ErrorHandler(message, statusCode), part_001 lines 30-37: the
\* parameter defaults apply to undefined arguments only
ErrorHandler(message, statusCode) ==
  LET m == IF message = OmittedMessage THEN DefaultMessage ELSE message
      given == IF statusCode = Omitted THEN 500 ELSE statusCode
      sc == ValidStatusCode(given)
  IN  [message |-> m, statusCode |-> sc, statusText |-> errorCodesGet(sc)]

\* Array.prototype.join(", ")
RECURSIVE Join(_)
Join(q) ==
  IF q = << >> THEN ""
  ELSE IF Len(q) = 1 THEN q[1]
  ELSE q[1] \o ", " \o Join(Tail(q))

\* handleCommonErrors(err), lines 10-41.  Object.values(err.errors) throws a
\* TypeError when the errors field is undefined.
handleCommonErrors(err) ==
  IF err.type # "object"
    THEN Returned(ErrorHandler("Unexpected error occurred", 500))
    ELSE CASE err.name = "CastError" ->
                Returned(ErrorHandler(
                  "Resource not found. Invalid " \o err.path, 400))
           [] err.name = "ValidationError" ->
                (IF err.hasErrors
                   THEN Returned(ErrorHandler(Join(err.errors), 400))
                   ELSE ThrewTypeError)
           [] err.name \in {"JsonWebTokenError", "TokenExpiredError"} ->
                Returned(ErrorHandler(
                  "JSON Web Token is invalid or expired. Please try again",
                  400))
           [] err.name = "AxiosError" ->
                Returned(ErrorHandler(
                  "Error communicating with an external service", 502))
           [] OTHER ->
                Returned(ErrorHandler(
                  IF err.message = "" THEN "Unhandled server error"
                  ELSE err.message,
                  IF err.statusCode \in {Omitted, 0} THEN 500
                  ELSE err.statusCode))

\* the switch on err.code of errorMiddleware, lines 28-54, applied to the
\* error handleCommonErrors returned
CodeMapping(err, error) ==
  CASE err.code = Code("string", "ENOENT") ->
         ErrorHandler("Resource not found", 404)
    [] err.code = Code("number", "11000") ->
         ErrorHandler("Duplicate entry for field(s): " \o Join(err.keys), 400)
    [] err.code = Code("string", "EBADCSRFTOKEN") ->
         ErrorHandler("Invalid CSRF token", 403)
    [] err.code = Code("string", "ECONNREFUSED") ->
         ErrorHandler("Connection refused", 502)
    [] err.code = Code("string", "ECONNRESET") ->
         ErrorHandler("Connection reset by peer", 502)
    [] err.code = Code("string", "ETIMEDOUT") ->
         ErrorHandler("Connection timed out", 502)
    [] OTHER -> error

\* The error errorMiddleware answers with, or the TypeError it lets out:
\* from handleCommonErrors (line 26), or from reading err.code of null or
\* undefined (line 28).
errorMiddleware(err) ==
  LET h == handleCommonErrors(err)
  IN  IF h.threw THEN ThrewTypeError
      ELSE IF err.type \in {"null", "undefined"} THEN ThrewTypeError
      ELSE Returned(CodeMapping(err, h.error))

\* the object a thrown ErrorHandler instance is when it reaches the
\* middleware: its name is that of Error
AsErr(e) == Err("object", "Error", NoCode, e.message, e.statusCode, FALSE, << >>)

InitMw ==
  /\ mwErr \in MwErrors
  /\ mpc = "ready"
  /\ statusCalls = << >>
  /\ jsonCalls = << >>
  /\ nextCalls = 0
  /\ instance = NoInstance
  /\ handled = NotHandled
  /\ HandlerUnused
  /\ BundleUnused

\* application code constructs an ErrorHandler and passes it on as the error
NewErrorHandler(message, statusCode) ==
  /\ mpc = "ready"
  /\ instance = NoInstance
  /\ instance' = ErrorHandler(message, statusCode)
  /\ mwErr' = AsErr(instance')
  /\ handled = NotHandled
  /\ UNCHANGED <<mpc, statusCalls, jsonCalls, nextCalls, handled, vars, bvars>>

\* errorMiddleware(mwErr, req, res, next), lines 20-62
ErrorMiddlewareCall ==
  /\ mpc = "ready"
  /\ LET r == errorMiddleware(mwErr)
     IN  IF r.threw
           THEN /\ mpc' = "threw"
                /\ UNCHANGED <<statusCalls, jsonCalls>>
           ELSE /\ mpc' = "sent"
                /\ statusCalls' = Append(statusCalls, r.error.statusCode)
                /\ jsonCalls' = Append(jsonCalls,
                     [success |-> FALSE,
                      message |-> r.error.message,
                      statusCode |-> r.error.statusCode,
                      statusText |-> r.error.statusText])
  /\ UNCHANGED <<mwErr, nextCalls, instance, handled, vars, bvars>>

\* a call handleCommonErrors(mwErr) on its own, lines 10-41 (the function
\* is a named export of its module; errorMiddleware calls it on line 26)
HandleCommonErrorsCall ==
  /\ mpc = "ready"
  /\ handled = NotHandled
  /\ handled' = handleCommonErrors(mwErr)
  /\ UNCHANGED <<mwErr, mpc, statusCalls, jsonCalls, nextCalls, instance,
                 vars, bvars>>

NextMw ==
  \/ \E message \in {OmittedMessage, "Not found"},
        statusCode \in {Omitted, 0, 404, 500, 999} :
          NewErrorHandler(message, statusCode)
  \/ ErrorMiddlewareCall
  \/ HandleCommonErrorsCall

SpecMw == InitMw /\ [][NextMw]_allvars

\* ================================================================ claims
Wrapped == mode = "wrapped"

\* invocation i was given a callable continuation
HasNext(i) == phase[i] # "idle" /\ isFunction(LastArg(args[i]))

Last(q) == q[Len(q)]

\* C1: an invocation of a wrapped callable that no other invocation
\* overlaps calls the caller's continuation at most once: as long as no
\* other invocation has started since it did (it is the latest one
\* started), its continuation has been called at most once, whatever
\* explicit calls, throw or rejection it made.
C1_AtMostOnceAlone ==
  Wrapped => \A i \in Invs : started = i => Len(calls[i]) <= 1

\* two explicit calls and a failure inside the only invocation started, one
\* continuation call
C1_Witness ==
  /\ Wrapped
  /\ started = 1
  /\ explicit[1] = 2
  /\ failure[1] # NoVal
  /\ Len(calls[1]) = 1

\* C2: with overlapping invocations of the same wrapped callable, each
\* invocation's own continuation is still called at most once.
C2_PerCallFlag ==
  Wrapped => \A i \in Invs : Len(calls[i]) <= 1

\* C3: when the promise of an invocation that made no explicit continuation
\* call rejects (with a value the wrapper can convert), the error reaches
\* that invocation's continuation, once, whatever other invocations did.
C3_NoFailureLost ==
  [][\A i \in Invs :
       ( /\ Wrapped
         /\ phase[i] = "pending"
         /\ failure'[i] # NoVal
         /\ CanPass(failure'[i])
         /\ explicit[i] = 0 )
       => calls'[i] = << <<ErrorToPassAsync(failure'[i])>> >>]_vars

\* C4: when an invocation that has called its continuation explicitly then
\* throws or rejects, its continuation has seen exactly one call, made before
\* the failure, and the failure adds none.
C4_FirstSignalWins ==
  [][\A i \in Invs :
       ( /\ Wrapped
         /\ failure[i] = NoVal
         /\ failure'[i] # NoVal
         /\ explicit[i] >= 1 )
       => (Len(calls[i]) = 1 /\ calls'[i] = calls[i])]_vars

\* C5: when the promise of an invocation whose continuation has not fired
\* rejects with an Error, the continuation is called once with that same
\* Error object and the promise the wrapper returned does not reject.
C5_RejectionDelivered ==
  [][\A i \in Invs :
       ( /\ Wrapped
         /\ phase[i] = "pending"
         /\ failure'[i] # NoVal
         /\ IsError(failure'[i])
         /\ calls[i] = << >> )
       => ( /\ calls'[i] = << <<failure'[i]>> >>
            /\ result'[i] = "fulfilled" )]_vars

\* C6: when the body of an invocation whose continuation has not fired
\* throws synchronously, the thrown value is delivered to the continuation
\* once, before the wrapper returns, and the wrapper returns normally.
C6_SyncThrowDelivered ==
  [][\A i \in Invs :
       ( /\ Wrapped
         /\ phase[i] = "sync"
         /\ failure'[i] # NoVal
         /\ calls[i] = << >> )
       => ( /\ Len(calls'[i]) = 1
            /\ result'[i] = "undefined" )]_vars

\* C7: a call of a wrapped callable never throws and never returns a promise
\* that rejects.
C7_NothingEscapes ==
  Wrapped => \A i \in Invs : result[i] \notin {"threw", "rejected"}

\* C8: whatever kind of plain callback was given to catchAsync, a throw or a
\* rejection of the callback, in a single invocation that made no explicit
\* call and with a value the wrapper can convert, is delivered to the
\* continuation once.
C8_EveryCallbackKind ==
  \A i \in Invs :
    ( /\ HasNext(i)
      /\ started = 1
      /\ failure[i] # NoVal
      /\ CanPass(failure[i])
      /\ explicit[i] = 0 )
    => Len(calls[i]) = 1

C10_MalformedNext ==
  Wrapped =>
    \A i \in Invs :
      (phase[i] # "idle" /\ ~(LastArg(args[i]) = "next"))
      => ( /\ fnInvoked[i] = 0
           /\ calls[i] = << >>
           /\ failure[i] = NoVal
           /\ result[i] = "undefined"
           /\ phase[i] = "aborted" )

\* both malformed shapes were aborted: no arguments, and a last argument
\* that is not callable
C10_Witness ==
  /\ Wrapped
  /\ \E i \in Invs : phase[i] = "aborted" /\ args[i] = << >>
  /\ \E i \in Invs : phase[i] = "aborted" /\ Len(args[i]) = arity

\* ------------------------------------------------ claims on the class walk
\* the levels on the parent chain of level l up to, and without,
\* Object.prototype
RECURSIVE ChainFrom(_, _)
ChainFrom(l, seen) ==
  IF l \in seen \/ l \in {NullLevel, ObjProto, NoLevel}
    THEN seen
    ELSE ChainFrom(parent[l], seen \cup {l})

InheritanceChain(l) == ChainFrom(l, {})

\* a call of the entry point on a class has returned or thrown
ClassCallDone == bpc = "idle" /\ entries > 0 /\ Dispatch(target) = "class"

\* an ordinary function member: a method of a class body or a function
\* expression assigned to the level
PlainFunction(l, k) ==
  k # "constructor" /\ ShapeName(offset, l, k) \in {"method", "funcExpr"}

\* what invoking a member whose body throws does, through an instance and
\* with a callable continuation: a member that is the original function
\* throws to the caller
InvokeThrowing(l, k) == IF depth[l][k] = 0 THEN "threw" ELSE "delivered"

\* C11: after the entry point returned for the most-derived class of a
\* chain, every own function member of every level of the chain below
\* Object.prototype is in its wrapped form, so invoking it delivers its
\* error to the continuation and does not throw.
C11_BundleComplete ==
  (ClassCallDone /\ target.proto # ObjProto) =>
    \A l \in InheritanceChain(target.proto) : \A k \in KeySet :
      PlainFunction(l, k) => InvokeThrowing(l, k) = "delivered"

\* C12: after any sequence of calls of the entry point on classes, the same
\* class again or classes that share a level, no member has been wrapped
\* more than once: a member that is a wrapped form is not wrapped again.
C12_NoDoubleWrapping ==
  \A l \in AllLevels : \A k \in KeySet : depth[l][k] <= 1

\* a second call on a class has walked over a level that held wrapped
\* members already, and they are still wrapped once
C12_Witness ==
  /\ ClassCallDone
  /\ entries = 2
  /\ target.proto # ObjProto
  /\ \E l \in InheritanceChain(target.proto) :
       /\ depth[l]["m"] = 1
       /\ depth[l]["x"] = 1
  /\ \A l \in InheritanceChain(target.proto) : depth[l]["m"] = 1

\* C13: whatever the parent links are, cyclic or reaching a level twice, one
\* call of the entry point processes each level at most once, and a walk
\* that has started ends.
C13_CycleSafe ==
  /\ [](\A l \in AllLevels : visits[l] <= 1)
  /\ [](processed = {l \in AllLevels : visits[l] = 1})
  /\ (bpc = "walking") ~> (bpc = "idle")

\* a walk over a heap whose parent links form a cycle has ended
C13_Witness ==
  /\ ClassCallDone
  /\ ret.kind = "returned"
  /\ \E l \in processed \cap Levels :
       parent[l] \in processed /\ parent[l] <= l
  /\ Cardinality(processed) >= 2

\* C14: whatever class the entry point is given, no member of
\* Object.prototype is replaced by a wrapped form.
C14_BaseNeverProcessed ==
  \A k \in KeySet : depth[ObjProto][k] = 0

\* C15: the entry point returns null and undefined as they are and throws a
\* TypeError for every other value that is not a function; in both cases no
\* level is touched.
C15_NonCallableDispatch ==
  [][\A t \in EntryInputs :
       (CatchAsyncCall(t) /\ ~isFunctionTarget(t)) =>
         /\ depth' = depth
         /\ bpc' = "idle"
         /\ IF t \in {NullV, UndefinedV}
              THEN ret' = [kind |-> "returned", value |-> t]
              ELSE ret'.kind = "TypeError"]_allvars

\* the entry point threw for the number 42 after a class had been wrapped
C15_Witness ==
  /\ target = Number42
  /\ ret.kind = "TypeError"
  /\ entries = 2
  /\ \E l \in Levels : depth[l]["m"] = 1

\* the entry point has returned the wrapper of a plain callback
HandlerCallDone ==
  /\ bpc = "idle"
  /\ entries > 0
  /\ Dispatch(target) = "handler"
  /\ ret.kind = "returned"

FailingMember(l, k) ==
  /\ k # "constructor"
  /\ ShapeName(offset, l, k) \in {"funcExpr", "accessorFn", "frozenMethod"}

\* C17: when wrapping or replacing a member fails, the member stays the
\* original function, the entry point still returns, and the other function
\* members of the level and of its ancestors are wrapped.
C17_FailuresIsolated ==
  ClassCallDone =>
    /\ ret.kind = "returned"
    /\ \A l \in InheritanceChain(target.proto) : \A k \in KeySet :
         /\ FailingMember(l, k) => depth[l][k] = 0
         /\ (k # "constructor" /\ ShapeName(offset, l, k) = "method")
              => depth[l][k] = 1

\* a walk met a failing member on a level that has an ancestor, and the
\* member after it and the ancestor's members are wrapped
C17_Witness ==
  /\ ClassCallDone
  /\ ret.kind = "returned"
  /\ target.proto \in Levels
  /\ Cardinality(InheritanceChain(target.proto)) >= 2
  /\ ShapeName(offset, target.proto, "x") = "accessorFn"
  /\ depth[target.proto]["x"] = 0
  /\ \A l \in InheritanceChain(target.proto) : depth[l]["m"] = 1

\* C20: for a function with an object prototype the entry point returns the
\* object it was given, and on every level the constructor, the accessor
\* members and the members that are not functions stay as they were.
C20_SameObjectAndFrame ==
  /\ ClassCallDone => (ret.kind = "returned" /\ ret.value = target)
  /\ \A l \in AllLevels : \A k \in KeySet :
       (\/ k = "constructor"
        \/ Descriptor(offset, l, k).kind = "accessor"
        \/ ~Descriptor(offset, l, k).callable) => depth[l][k] = 0

\* a class was returned after a walk over a level with a method-shaped
\* constructor member and a getter, and the level's method was wrapped
C20_Witness ==
  /\ ClassCallDone
  /\ ret.value = target
  /\ target.proto \in Levels
  /\ \E l \in InheritanceChain(target.proto) :
       /\ ShapeName(offset, l, "constructor") = "method"
       /\ ShapeName(offset, l, "x") = "getter"
       /\ depth[l]["m"] = 1
       /\ depth[l]["constructor"] = 0

\* ------------------------------------------- claims on the error handling
\* C18: every ErrorHandler instance has a statusCode that is a key of
\* errorCodes and the statusText the table has for it; a statusCode argument
\* that is not a key, or is left out, gives 500 and "Internal Server Error".
C18_StatusCodeInTable ==
  /\ instance # NoInstance =>
       /\ errorCodesHas(instance.statusCode)
       /\ instance.statusText = errorCodes[instance.statusCode]
  /\ \A j \in 1..Len(jsonCalls) :
       /\ errorCodesHas(jsonCalls[j].statusCode)
       /\ jsonCalls[j].statusText = errorCodes[jsonCalls[j].statusCode]
  /\ \A m \in {OmittedMessage, "Not found"} : \A sc \in {Omitted, 0, 999} :
       /\ ErrorHandler(m, sc).statusCode = 500
       /\ ErrorHandler(m, sc).statusText = "Internal Server Error"

\* an error with a statusCode that is not in the table was answered with 500
C18_Witness ==
  /\ mpc = "sent"
  /\ mwErr.type = "object"
  /\ mwErr.statusCode = 999
  /\ jsonCalls[1].statusCode = 500
  /\ jsonCalls[1].statusText = "Internal Server Error"

\* C19: for every err, errorMiddleware calls res.status once with a key of
\* errorCodes and res.json once with success false, that statusCode and its
\* statusText; it does not call next and does not throw.
C19_OneResponse ==
  mpc # "ready" =>
    /\ mpc = "sent"
    /\ nextCalls = 0
    /\ Len(statusCalls) = 1
    /\ Len(jsonCalls) = 1
    /\ errorCodesHas(statusCalls[1])
    /\ jsonCalls[1].success = FALSE
    /\ jsonCalls[1].statusCode = statusCalls[1]
    /\ jsonCalls[1].statusText = errorCodes[statusCalls[1]]

\* --------------------------------------- claims on delegation and results
\* C21: every invocation of a wrapped callable with a callable last
\* argument applies the original callable once, on the caller's receiver,
\* to as many arguments as the caller gave: each argument but the last is
\* the caller's value in the same position and the last is the guarded
\* continuation.
C21_TransparentDelegation ==
  Wrapped =>
    \A i \in Invs :
      HasNext(i) =>
        /\ fnInvoked[i] = 1
        /\ applied[i].receiver = thisArg
        /\ Len(applied[i].args) = Len(args[i])
        /\ \A k \in 1..(Len(args[i]) - 1) : applied[i].args[k] = args[i][k]
        /\ Last(applied[i].args) = "wrappedNext"

\* a method call on a controller instance reached the original with that
\* receiver, the caller's request and response and the guarded continuation
C21_Witness ==
  /\ Wrapped
  /\ thisArg = "controller"
  /\ \E i \in Invs :
       /\ args[i] = <<"req", "res", "next">>
       /\ applied[i] = [receiver |-> "controller",
                        args |-> <<"req", "res", "wrappedNext">>]
       /\ result[i] # "none"

\* C22: the first call an invocation makes of its guarded continuation is
\* forwarded: the caller's continuation gets one call with the same argument
\* list; every later call of the guarded continuation in that invocation
\* reaches the caller's continuation not at all.  (The first call is one
\* made before the invocation failed or called explicitly; a later call is
\* one made after an explicit call.)
C22_ForwardFirstDropLater ==
  [][\A i \in Invs : \A nextArgs \in NextArgs :
       (Wrapped /\ CallNext(i, nextArgs)) =>
         /\ (explicit[i] = 0 /\ failure[i] = NoVal)
              => calls'[i] = << nextArgs >>
         /\ explicit[i] >= 1 => calls'[i] = calls[i]]_vars

\* C23: for every plain callback f the wrapper is made for, wrapping does
\* not fail and every own property of f other than name and length, data or
\* accessor, enumerable or not, is on the wrapper with the same value.
C23_PropertiesCopied ==
  (bpc = "idle" /\ entries > 0 /\ Dispatch(target) = "handler") =>
    /\ ret.kind = "returned"
    /\ ret.value.props = target.props

\* C24: a wrapped invocation ends as the claim lists: the body's own value
\* when the body returns one that is not a promise, a promise that fulfils
\* when the body's promise fulfils and also when it rejects, and undefined
\* when the body throws synchronously or the last argument is not callable.
C24_ReturnValue ==
  [][\A i \in Invs :
       Wrapped =>
         /\ (phase[i] = "sync" /\ failure'[i] # NoVal)
              => result'[i] = "undefined"
         /\ (phase[i] = "pending" /\ phase'[i] = "late")
              => result'[i] = "fulfilled"
         /\ (phase[i] = "sync" /\ phase'[i] = "late" /\ failure'[i] = NoVal)
              => result'[i] = "value"
         /\ (phase[i] = "idle" /\ phase'[i] = "aborted")
              => result'[i] = "undefined"]_vars

\* C25: when several sub-operations of one invocation fail, the invocation
\* having made no explicit continuation call, the continuation has been
\* called once, with the failure that settled first (as C9 has it passed
\* on), and the later failure added no call.
C25_FirstFailureOnly ==
  Wrapped =>
    \A i \in Invs :
      (laterFailures[i] > 0 /\ explicit[i] = 0) =>
        calls[i] = << <<ErrorToPassAsync(failure[i])>> >>

\* C26: an invocation with fewer arguments than the declared arity and a
\* callable last argument is not aborted: the original callable is applied
\* once to those arguments, and when the invocation fails without having
\* called its continuation explicitly, the continuation gets the failure.
C26_ShortCallProceeds ==
  Wrapped =>
    \A i \in Invs :
      (HasNext(i) /\ Len(args[i]) < arity) =>
        /\ phase[i] # "aborted"
        /\ fnInvoked[i] = 1
        /\ applied[i] = ApplyOriginal(thisArg, args[i])
        /\ (failure[i] # NoVal /\ explicit[i] = 0) => Len(calls[i]) = 1

\* ------------------------------------------ claims on the error mapping
\* the status the claim gives for an err.code, 0 for every other code
CodeStatus(c) ==
  CASE c = Code("string", "ENOENT") -> 404
    [] c = Code("number", "11000") -> 400
    [] c = Code("string", "EBADCSRFTOKEN") -> 403
    [] c \in {Code("string", "ECONNREFUSED"), Code("string", "ECONNRESET"),
              Code("string", "ETIMEDOUT")} -> 502
    [] OTHER -> 0

\* the body of the response for an ErrorHandler
ResponseBody(e) ==
  [success |-> FALSE, message |-> e.message, statusCode |-> e.statusCode,
   statusText |-> e.statusText]

\* C27: for an err object whose code is one of the six mapped codes the
\* response status is the one of the code, whatever its name, message and
\* statusCode are; for every other code the response is the one
\* handleCommonErrors(err) determines.
C27_CodeTakesPrecedence ==
  (mpc # "ready" /\ mwErr.type = "object") =>
    /\ mpc = "sent"
    /\ Len(statusCalls) = 1
    /\ Len(jsonCalls) = 1
    /\ IF CodeStatus(mwErr.code) # 0
         THEN /\ statusCalls[1] = CodeStatus(mwErr.code)
              /\ jsonCalls[1].statusCode = CodeStatus(mwErr.code)
         ELSE /\ statusCalls[1] = handleCommonErrors(mwErr).error.statusCode
              /\ jsonCalls[1] = ResponseBody(handleCommonErrors(mwErr).error)

\* C28: handleCommonErrors returns an ErrorHandler for every input and never
\* throws; for an object whose name it does not recognise the ErrorHandler
\* has the object's message (when it has one) and the object's statusCode
\* when that is a key of errorCodes, otherwise 500.
C28_HandleCommonErrorsTotal ==
  handled.called =>
    /\ ~handled.threw
    /\ errorCodesHas(handled.error.statusCode)
    /\ (mwErr.type = "object" /\ mwErr.name = "Error") =>
         /\ mwErr.message # "" => handled.error.message = mwErr.message
         /\ handled.error.statusCode =
              IF errorCodesHas(mwErr.statusCode) THEN mwErr.statusCode
              ELSE 500


====
